---- MODULE Spec2Model ----
(***************************************************************************)
(* Model of the quasar engine scaffold:                                    *)
(*   - Hardware::new  (engine/src/drawing/hardware.rs): adapter filter,    *)
(*     scoring, queue-family selection, logical device / queue creation;   *)
(*   - Engine::run    (engine/src/drawing/engine.rs) and the identical     *)
(*     loop of demo_graphics (quasar/src/graphics.rs): the frame loop.     *)
(* Specifications: SpecHardware runs Hardware::new on every bounded adapter *)
(* list, Spec runs the event loop, SpecCounted runs it with the Resized    *)
(* events counted, SpecSwapchain runs the constructors of a swapchain,     *)
(* SpecFair is Spec with a driver that does not refuse a recreate forever. *)
(***************************************************************************)
EXTENDS Integers, Sequences, FiniteSets, TLC

\* ------------------------------------------------------------------ bounds
\* Number of physical devices PhysicalDevice::enumerate may report.
MaxAdapters == 2
\* Number of queue families over all the enumerated adapters together
\* (every adapter has at least one family).
MaxFamilies == 2
\* Largest queues_count a queue family reports.
MaxQueues == 2
\* Number of completion tokens (sync::now and flushed frames) the loop may create.
MaxTokens == 3
\* Number of swapchains (the first one and the recreated ones) the loop may create.
MaxSwapchains == 3
\* Number of distinct sizes the window can take.
MaxExtent == 2
\* Largest min_image_count the surface capabilities report.
MaxImages == 2
\* Largest number of formats, and of composite alpha modes, the surface
\* capabilities list.
MaxListed == 2

VARIABLES
    \* ---- Hardware::new
    adapters,           \* what PhysicalDevice::enumerate reports, in order
    hw_pc,              \* "new" before Hardware::new ran, "done" after
    hw_panic,           \* the message of the expect() that aborted, or NoPanic
    graphics_physical,  \* index (in adapters) of the adapter chosen for graphics, 0: none
    graphics_family,    \* id (position in the adapter's family list) chosen for graphics
    compute_physical,
    compute_family,
    queues_count,       \* queues_count of the family asked for two queues, 0: not asked
    required_extensions, \* what required_extensions() answered for each role's adapter
    devices,            \* the logical devices Device::new created, in creation order
    graphics_queue,     \* the queue kept for graphics, or NoQueue
    compute_queue,      \* the queue kept for compute, or NoQueue
    \* ---- Engine::run
    loop_pc,            \* "new", "running", "panicked" or "destroyed"
    control_flow,       \* winit's *control_flow: "Poll" or "Exit"
    window_extent,      \* window().inner_size()
    recreate_swapchain, \* the resize flag
    previous_frame_end, \* the Option: {} is None, {t} is Some(t)
    tokens_made,        \* number of completion tokens created so far
    swapchain,          \* the current swapchain: [id, extent, num_images]
    framebuffers,       \* the current framebuffer set, one entry per image
    viewport,           \* the viewport handed to draw
    iter,               \* what the latest RedrawEventsCleared handler did
    \* ---- the events winit delivered (history, no field of the program)
    resizes_pending,    \* Resized events since the latest RedrawEventsCleared:
                        \* "none", "one" or "several"
    resizes_before,     \* those that preceded the latest RedrawEventsCleared,
                        \* "none" again once a Resized event has come since
    \* ---- Screen::new, Engine::new, Painter::new
    surface_capabilities, \* what surface.capabilities(physical_device) reports
    inner_size,         \* window().inner_size() when the swapchain is created
    screen_pc,          \* "new" before a constructor ran, "done" after
    swapchain_create    \* the constructor that ran, its panic, the parameters it built with

hw_vars == <<adapters, hw_pc, hw_panic, graphics_physical, graphics_family,
             compute_physical, compute_family, queues_count, required_extensions,
             devices,
             graphics_queue, compute_queue>>

loop_vars == <<loop_pc, control_flow, window_extent, recreate_swapchain,
               previous_frame_end, tokens_made, swapchain, framebuffers, viewport, iter,
               resizes_pending, resizes_before>>

screen_vars == <<surface_capabilities, inner_size, screen_pc, swapchain_create>>

vars == <<hw_vars, loop_vars, screen_vars>>

\* ------------------------------------------------------------ Hardware::new

DeviceTypes == {"DiscreteGpu", "IntegratedGpu", "VirtualGpu", "Cpu", "Other"}

\* A queue family as the selection reads it. supports_surface is TRUE exactly
\* when family.supports_surface(&surface) is Ok(true): unwrap_or(false) turns
\* an Err into false.
Family == [supports_graphics : BOOLEAN, supports_surface : BOOLEAN,
           supports_compute : BOOLEAN]

\* A physical device with n queue families. khr_swapchain: whether
\* supported_extensions() is a superset of the engine's device_extensions.
\* The filter drops an adapter without the extension before its type or its
\* families are read, so one such adapter stands for all of them: the one
\* that would win every comparison if it were not dropped.
AdaptersWith(n) ==
    [device_type : DeviceTypes, khr_swapchain : {TRUE}, families : [1..n -> Family]]
    \cup {[device_type |-> "DiscreteGpu", khr_swapchain |-> FALSE,
           families |-> [i \in 1..n |-> [supports_graphics |-> TRUE,
                                         supports_surface |-> TRUE,
                                         supports_compute |-> TRUE]]]}

RECURSIVE SumSeq(_)
SumSeq(s) == IF s = <<>> THEN 0 ELSE Head(s) + SumSeq(Tail(s))

\* The family counts of the adapters of one enumeration.
Shapes == {s \in UNION {[1..n -> 1..MaxFamilies] : n \in 0..MaxAdapters} :
              SumSeq(s) <= MaxFamilies}

RECURSIVE AdapterLists(_)
AdapterLists(s) ==
    IF s = <<>> THEN {<<>>}
    ELSE {<<a>> \o rest : a \in AdaptersWith(Head(s)), rest \in AdapterLists(Tail(s))}

NoPanic == "none"
PanicGraphicsFamily == "Could not find a suitable graphics queue family"
PanicComputeFamily == "Could not find a suitable compute queue family"
PanicDevice == "Couldn't instantiate the device"
NoQueue == [device |-> 0, family |-> 0, id |-> 0]

\* device_extensions: what the engine needs of a device
DeviceExtensions == {"khr_swapchain"}

\* What PhysicalDevice::required_extensions can answer: the extensions an
\* adapter obliges its devices to enable (khr_portability_subset, if any)
RequiredExtensionSets == SUBSET {"khr_portability_subset"}

\* A mutant of EnabledExtensions: the adapter's required extensions are left out.
EnabledExtensionsOnlyEngine(required) == DeviceExtensions

\* physical.required_extensions().union(&device_extensions)
EnabledExtensions(required) == required \cup DeviceExtensions

\* A mutant of Score: the software class is scored last.
ScoreSoftwareLast(device_type) ==
    CASE device_type = "DiscreteGpu" -> 0
      [] device_type = "IntegratedGpu" -> 1
      [] device_type = "VirtualGpu" -> 2
      [] device_type = "Other" -> 3
      [] device_type = "Cpu" -> 4

\* Lower means better.
Score(device_type) ==
    CASE device_type = "DiscreteGpu" -> 0
      [] device_type = "IntegratedGpu" -> 1
      [] device_type = "VirtualGpu" -> 2
      [] device_type = "Cpu" -> 3
      [] device_type = "Other" -> 4

\* enumerate().filter(supports device_extensions).map(score).collect()
PhysicalCandidates(ads) ==
    LET F[i \in 0..Len(ads)] ==
            IF i = 0 THEN <<>>
            ELSE IF ads[i].khr_swapchain
                 THEN Append(F[i - 1], [score |-> Score(ads[i].device_type),
                                        physical |-> i])
                 ELSE F[i - 1]
    IN F[Len(ads)]

\* The closures handed to queue_families().find(..), one per role
GraphicsPredicate(family) == family.supports_graphics /\ family.supports_surface
\* A mutant of ComputePredicate: the compute family must present too.
ComputePredicateNeedsSurface(family) ==
    family.supports_compute /\ family.supports_surface
ComputePredicate(family) == family.supports_compute
Suitable(family, role) ==
    IF role = "graphics" THEN GraphicsPredicate(family) ELSE ComputePredicate(family)

\* queue_families().find(pred): the id of the first family satisfying the
\* role's predicate, 0 if none. (family.id() counts from 0, positions from 1.)
FindFamily(families, role) ==
    LET ok == {j \in 1..Len(families) : Suitable(families[j], role)}
    IN IF ok = {} THEN 0 ELSE CHOOSE j \in ok : \A k \in ok : j <= k

\* A mutant of FilterMap: an adapter is kept whether or not it has a
\* suitable family (its first family is taken).
FilterMapKeepsAll(ads, candidates, role) ==
    [i \in 1..Len(candidates) |->
        [score |-> candidates[i].score, physical |-> candidates[i].physical,
         family |-> 1]]

\* physical_candidates.iter().filter_map(|..| find(pred).map(|family| (score, physical, family)))
FilterMap(ads, candidates, role) ==
    LET F[i \in 0..Len(candidates)] ==
            IF i = 0 THEN <<>>
            ELSE LET c == candidates[i]
                     f == FindFamily(ads[c.physical].families, role)
                 IN IF f # 0
                    THEN Append(F[i - 1], [score |-> c.score, physical |-> c.physical,
                                           family |-> f])
                    ELSE F[i - 1]
    IN F[Len(candidates)]

\* A mutant of MinByKey: the first element, whatever its score.
MinByKeyFirst(s) == s[1]

\* A mutant of MinByKey: the last element, whatever its score.
MinByKeyLast(s) == s[Len(s)]

\* A mutant of MinByKey: of several elements with the lowest score, the last.
MinByKeyLastOfLowest(s) ==
    LET i == CHOOSE i \in 1..Len(s) :
                 /\ \A k \in 1..Len(s) : s[i].score <= s[k].score
                 /\ \A k \in (i + 1)..Len(s) : s[k].score > s[i].score
    IN s[i]

\* Iterator::min_by_key on a non-empty sequence: the first element of least score
MinByKey(s) ==
    LET i == CHOOSE i \in 1..Len(s) :
                 /\ \A k \in 1..Len(s) : s[i].score <= s[k].score
                 /\ \A k \in 1..(i - 1) : s[k].score > s[i].score
    IN s[i]

\* The queue_create_infos of the single device of the same-adapter case:
\* one entry asking two queues (priorities 0.5, 0.5) when the families are
\* the same, one entry per family otherwise.
SharedQueueCreateInfos(gf, cf) ==
    IF gf = cf
    THEN <<[family |-> gf, queues |-> 2]>>
    ELSE <<[family |-> gf, queues |-> 1], [family |-> cf, queues |-> 1]>>

\* Device::new accepts the request iff no entry asks more queues than its
\* family has. qc is the queues_count of family gf; an entry for another
\* family asks one queue, which every family has.
DeviceNewOk(infos, gf, qc) ==
    \A i \in 1..Len(infos) :
        IF infos[i].family = gf THEN infos[i].queues <= qc ELSE infos[i].queues <= 1

\* A mutant of QueuesIter: every queue reports the first device created.
RECURSIVE QueuesIterOfFirst(_, _)
QueuesIterOfFirst(d, infos) ==
    IF infos = <<>> THEN <<>>
    ELSE [k \in 1..Head(infos).queues |->
             [device |-> 1, family |-> Head(infos).family, id |-> k - 1]]
         \o QueuesIterOfFirst(d, Tail(infos))

\* The queues iterator Device::new returns for device d: the queues of each
\* entry in order, numbered from 0 within their family.
RECURSIVE QueuesIter(_, _)
QueuesIter(d, infos) ==
    IF infos = <<>> THEN <<>>
    ELSE [k \in 1..Head(infos).queues |->
             [device |-> d, family |-> Head(infos).family, id |-> k - 1]]
         \o QueuesIter(d, Tail(infos))

HardwareFailed(message, g, c) ==
    [panic |-> message,
     graphics_physical |-> g.physical, graphics_family |-> g.family,
     compute_physical |-> c.physical, compute_family |-> c.family,
     asked_two |-> FALSE, devices |-> <<>>,
     graphics_queue |-> NoQueue, compute_queue |-> NoQueue]

NoSelection == [score |-> 0, physical |-> 0, family |-> 0]

\* "Creating the device(s)": g and c are the selections, qc the queues_count
\* of the graphics family, rg and rc the required extensions of the two adapters.
CreateDevices(g, c, qc, rg, rc) ==
    IF g.physical = c.physical
    THEN LET infos == SharedQueueCreateInfos(g.family, c.family)
             queues == QueuesIter(1, infos)
         IN IF DeviceNewOk(infos, g.family, qc)
            THEN [panic |-> NoPanic,
                  graphics_physical |-> g.physical, graphics_family |-> g.family,
                  compute_physical |-> c.physical, compute_family |-> c.family,
                  asked_two |-> (g.family = c.family),
                  devices |-> <<[physical |-> g.physical,
                                 enabled_extensions |-> EnabledExtensions(rg),
                                 queue_create_infos |-> infos]>>,
                  graphics_queue |-> queues[1],
                  compute_queue |-> queues[2]]
            ELSE [HardwareFailed(PanicDevice, g, c) EXCEPT !.asked_two = TRUE]
    ELSE LET ginfos == <<[family |-> g.family, queues |-> 1]>>
             cinfos == <<[family |-> c.family, queues |-> 1]>>
         IN [panic |-> NoPanic,
             graphics_physical |-> g.physical, graphics_family |-> g.family,
             compute_physical |-> c.physical, compute_family |-> c.family,
             asked_two |-> FALSE,
             devices |-> <<[physical |-> g.physical,
                            enabled_extensions |-> EnabledExtensions(rg),
                            queue_create_infos |-> ginfos],
                           [physical |-> c.physical,
                            enabled_extensions |-> EnabledExtensions(rc),
                            queue_create_infos |-> cinfos]>>,
             graphics_queue |-> QueuesIter(1, ginfos)[1],
             compute_queue |-> QueuesIter(2, cinfos)[1]]

\* The candidates of one role, before min_by_key
SelectFor(ads, role) == FilterMap(ads, PhysicalCandidates(ads), role)

\* Hardware::new on the adapter list ads
HardwareNewResult(ads, qc, rg, rc) ==
    LET graphics == SelectFor(ads, "graphics")
        compute == SelectFor(ads, "compute")
    IN IF graphics = <<>>
       THEN HardwareFailed(PanicGraphicsFamily, NoSelection, NoSelection)
       ELSE IF compute = <<>>
       THEN HardwareFailed(PanicComputeFamily, MinByKey(graphics), NoSelection)
       ELSE CreateDevices(MinByKey(graphics), MinByKey(compute), qc, rg, rc)

\* -------------------------------------------------------------- Engine::run

\* The sizes of the window, each standing for one [width, height]
Extents == 1..MaxExtent

PanicUnwrapNone == "called Option::unwrap() on a None value"
PanicRecreate == "Couldn't recreate the swapchain"
PanicAcquire == "Failed to acquire next image"
PanicExecute == "called Result::unwrap() on an Err value"

RecreateOutcomes == {"Ok", "ImageExtentNotSupported", "Error"}
AcquireOutcomes == {"Ok", "Suboptimal", "OutOfDate", "Error"}
ExecuteOutcomes == {"Ok", "Error"}
FlushOutcomes == {"Ok", "OutOfDate", "Error"}

\* The images of a swapchain
Images(sc) ==
    [i \in 1..sc.num_images |-> [swapchain |-> sc.id, index |-> i - 1, extent |-> sc.extent]]

\* A mutant of WindowSizeDependentSetup: a framebuffer is built for the first
\* image only.
WindowSizeDependentSetupFirstOnly(images, vp) ==
    [viewport |-> [vp EXCEPT !.dimensions = images[1].extent],
     framebuffers |-> <<[image |-> images[1]]>>]

\* window_size_dependent_setup: the viewport takes the dimensions of the first
\* image, and one framebuffer is built per image.
WindowSizeDependentSetup(images, vp) ==
    [viewport |-> [vp EXCEPT !.dimensions = images[1].extent],
     framebuffers |-> [i \in 1..Len(images) |-> [image |-> images[i]]]]

\* What a handler invocation has done so far.
NoIter ==
    [ops |-> <<>>, flag_at_start |-> FALSE, token_at_start |-> {},
     swapchain_at_start |-> [id |-> 0, extent |-> 1, num_images |-> 1],
     recreate |-> "None", acquire |-> "None", execute |-> "None", flush |-> "None",
     image_num |-> -1, acquired_from |-> 0, drawn |-> <<>>, waits |-> {}, presented |-> <<>>,
     warned |-> FALSE, returned |-> FALSE, panic |-> NoPanic]

Stopped(s) == s.iter.returned \/ s.iter.panic # NoPanic

Did(s, op) == [s EXCEPT !.iter.ops = Append(@, op)]

\* A mutant of CleanupFinished: nothing is cleaned up while the retained
\* token is a sync::now one.
CleanupFinishedOnlyAfterFrame(s) ==
    IF s.previous_frame_end = {}
    THEN [s EXCEPT !.iter.panic = PanicUnwrapNone]
    ELSE IF \E t \in s.previous_frame_end : t.kind = "frame"
    THEN Did(s, "cleanup_finished")
    ELSE s

\* previous_frame_end.as_mut().unwrap().cleanup_finished()
CleanupFinished(s) ==
    IF s.previous_frame_end = {}
    THEN [s EXCEPT !.iter.panic = PanicUnwrapNone]
    ELSE Did(s, "cleanup_finished")

\* A mutant of RecreateSwapchain: a rejected extent clears the flag.
RecreateSwapchainClearsOnReject(s, rc, extent) ==
    IF Stopped(s) \/ ~s.recreate_swapchain THEN s
    ELSE LET r == [Did(s, "recreate") EXCEPT !.iter.recreate = rc]
         IN CASE rc = "Ok" ->
                    LET new == [id |-> s.swapchain.id + 1, extent |-> extent,
                                num_images |-> s.swapchain.num_images]
                        setup == WindowSizeDependentSetup(Images(new), s.viewport)
                    IN [r EXCEPT !.swapchain = new,
                                 !.framebuffers = setup.framebuffers,
                                 !.viewport = setup.viewport,
                                 !.recreate_swapchain = FALSE]
              [] rc = "ImageExtentNotSupported" ->
                    [r EXCEPT !.recreate_swapchain = FALSE, !.iter.returned = TRUE]
              [] OTHER -> [r EXCEPT !.iter.panic = PanicRecreate]

\* A mutant of RecreateSwapchain: the new swapchain is installed, the
\* framebuffers are not rebuilt.
RecreateSwapchainKeepsFramebuffers(s, rc, extent) ==
    IF Stopped(s) \/ ~s.recreate_swapchain THEN s
    ELSE LET r == [Did(s, "recreate") EXCEPT !.iter.recreate = rc]
         IN CASE rc = "Ok" ->
                    LET new == [id |-> s.swapchain.id + 1, extent |-> extent,
                                num_images |-> s.swapchain.num_images]
                    IN [r EXCEPT !.swapchain = new,
                                 !.recreate_swapchain = FALSE]
              [] rc = "ImageExtentNotSupported" -> [r EXCEPT !.iter.returned = TRUE]
              [] OTHER -> [r EXCEPT !.iter.panic = PanicRecreate]

\* A mutant of RecreateSwapchain: the new framebuffers are added to the old
\* ones instead of replacing them.
RecreateSwapchainAppendsFramebuffers(s, rc, extent) ==
    IF Stopped(s) \/ ~s.recreate_swapchain THEN s
    ELSE LET r == [Did(s, "recreate") EXCEPT !.iter.recreate = rc]
         IN CASE rc = "Ok" ->
                    LET new == [id |-> s.swapchain.id + 1, extent |-> extent,
                                num_images |-> s.swapchain.num_images]
                        setup == WindowSizeDependentSetup(Images(new), s.viewport)
                    IN [r EXCEPT !.swapchain = new,
                                 !.framebuffers = setup.framebuffers \o @,
                                 !.viewport = setup.viewport,
                                 !.recreate_swapchain = FALSE]
              [] rc = "ImageExtentNotSupported" -> [r EXCEPT !.iter.returned = TRUE]
              [] OTHER -> [r EXCEPT !.iter.panic = PanicRecreate]

\* A mutant of RecreateSwapchain: a rejected extent aborts like any other
\* recreate error.
RecreateSwapchainRejectPanics(s, rc, extent) ==
    IF Stopped(s) \/ ~s.recreate_swapchain THEN s
    ELSE LET r == [Did(s, "recreate") EXCEPT !.iter.recreate = rc]
         IN CASE rc = "Ok" ->
                    LET new == [id |-> s.swapchain.id + 1, extent |-> extent,
                                num_images |-> s.swapchain.num_images]
                        setup == WindowSizeDependentSetup(Images(new), s.viewport)
                    IN [r EXCEPT !.swapchain = new,
                                 !.framebuffers = setup.framebuffers,
                                 !.viewport = setup.viewport,
                                 !.recreate_swapchain = FALSE]
              [] OTHER -> [r EXCEPT !.iter.panic = PanicRecreate]

\* A mutant of RecreateSwapchain: the new swapchain keeps the extent of the
\* old one instead of taking the window's.
RecreateSwapchainStaleExtent(s, rc, extent) ==
    IF Stopped(s) \/ ~s.recreate_swapchain THEN s
    ELSE LET r == [Did(s, "recreate") EXCEPT !.iter.recreate = rc]
         IN CASE rc = "Ok" ->
                    LET new == [id |-> s.swapchain.id + 1, extent |-> s.swapchain.extent,
                                num_images |-> s.swapchain.num_images]
                        setup == WindowSizeDependentSetup(Images(new), s.viewport)
                    IN [r EXCEPT !.swapchain = new,
                                 !.framebuffers = setup.framebuffers,
                                 !.viewport = setup.viewport,
                                 !.recreate_swapchain = FALSE]
              [] rc = "ImageExtentNotSupported" -> [r EXCEPT !.iter.returned = TRUE]
              [] OTHER -> [r EXCEPT !.iter.panic = PanicRecreate]

\* A mutant of RecreateSwapchain: after a rejected extent the handler goes on
\* with the old swapchain.
RecreateSwapchainRejectContinues(s, rc, extent) ==
    IF Stopped(s) \/ ~s.recreate_swapchain THEN s
    ELSE LET r == [Did(s, "recreate") EXCEPT !.iter.recreate = rc]
         IN CASE rc = "Ok" ->
                    LET new == [id |-> s.swapchain.id + 1, extent |-> extent,
                                num_images |-> s.swapchain.num_images]
                        setup == WindowSizeDependentSetup(Images(new), s.viewport)
                    IN [r EXCEPT !.swapchain = new,
                                 !.framebuffers = setup.framebuffers,
                                 !.viewport = setup.viewport,
                                 !.recreate_swapchain = FALSE]
              [] rc = "ImageExtentNotSupported" -> r
              [] OTHER -> [r EXCEPT !.iter.panic = PanicRecreate]

\* A mutant of RecreateSwapchain: the handler never recreates.
RecreateSwapchainSkipped(s, rc, extent) == s

\* A mutant of RecreateSwapchain: the framebuffers are rebuilt, the viewport
\* is left as it was.
RecreateSwapchainKeepsViewport(s, rc, extent) ==
    IF Stopped(s) \/ ~s.recreate_swapchain THEN s
    ELSE LET r == [Did(s, "recreate") EXCEPT !.iter.recreate = rc]
         IN CASE rc = "Ok" ->
                    LET new == [id |-> s.swapchain.id + 1, extent |-> extent,
                                num_images |-> s.swapchain.num_images]
                        setup == WindowSizeDependentSetup(Images(new), s.viewport)
                    IN [r EXCEPT !.swapchain = new,
                                 !.framebuffers = setup.framebuffers,
                                 !.recreate_swapchain = FALSE]
              [] rc = "ImageExtentNotSupported" -> [r EXCEPT !.iter.returned = TRUE]
              [] OTHER -> [r EXCEPT !.iter.panic = PanicRecreate]

\* "Recreate the swapchain if necessary": extent is the window's inner size
\* when recreate runs, rc the driver's answer.
RecreateSwapchain(s, rc, extent) ==
    IF Stopped(s) \/ ~s.recreate_swapchain THEN s
    ELSE LET r == [Did(s, "recreate") EXCEPT !.iter.recreate = rc]
         IN CASE rc = "Ok" ->
                    LET new == [id |-> s.swapchain.id + 1, extent |-> extent,
                                num_images |-> s.swapchain.num_images]
                        setup == WindowSizeDependentSetup(Images(new), s.viewport)
                    IN [r EXCEPT !.swapchain = new,
                                 !.framebuffers = setup.framebuffers,
                                 !.viewport = setup.viewport,
                                 !.recreate_swapchain = FALSE]
              [] rc = "ImageExtentNotSupported" -> [r EXCEPT !.iter.returned = TRUE]
              [] OTHER -> [r EXCEPT !.iter.panic = PanicRecreate]

\* A mutant of AcquireNextImage: an out-of-date acquire does not set the flag.
AcquireNextImageNoFlag(s, aq, n) ==
    IF Stopped(s) THEN s
    ELSE LET r == [Did(s, "acquire_next_image") EXCEPT !.iter.acquire = aq]
         IN CASE aq \in {"Ok", "Suboptimal"} ->
                    [r EXCEPT !.iter.image_num = n,
                              !.recreate_swapchain = (@ \/ aq = "Suboptimal")]
              [] aq = "OutOfDate" -> [r EXCEPT !.iter.returned = TRUE]
              [] OTHER -> [r EXCEPT !.iter.panic = PanicAcquire]

\* A mutant of AcquireNextImage: a suboptimal acquire ends the iteration as
\* an out-of-date one does.
AcquireNextImageSuboptimalReturns(s, aq, n) ==
    IF Stopped(s) THEN s
    ELSE LET r == [Did(s, "acquire_next_image") EXCEPT !.iter.acquire = aq]
         IN CASE aq = "Ok" -> [r EXCEPT !.iter.image_num = n]
              [] aq \in {"Suboptimal", "OutOfDate"} ->
                    [r EXCEPT !.recreate_swapchain = TRUE, !.iter.returned = TRUE]
              [] OTHER -> [r EXCEPT !.iter.panic = PanicAcquire]

\* A mutant of AcquireNextImage: every acquire error ends the iteration as
\* out-of-date does.
AcquireNextImageErrorReturns(s, aq, n) ==
    IF Stopped(s) THEN s
    ELSE LET r == [Did(s, "acquire_next_image") EXCEPT !.iter.acquire = aq]
         IN CASE aq \in {"Ok", "Suboptimal"} ->
                    [r EXCEPT !.iter.image_num = n,
                              !.recreate_swapchain = (@ \/ aq = "Suboptimal")]
              [] OTHER ->
                    [r EXCEPT !.recreate_swapchain = TRUE, !.iter.returned = TRUE]

\* A mutant of AcquireNextImage: an out-of-date acquire replaces the retained
\* token by a sync::now one, as a failed flush does.
AcquireNextImageReplacesToken(s, aq, n) ==
    IF Stopped(s) THEN s
    ELSE LET r == [Did(s, "acquire_next_image") EXCEPT !.iter.acquire = aq]
         IN CASE aq \in {"Ok", "Suboptimal"} ->
                    [r EXCEPT !.iter.image_num = n,
                              !.recreate_swapchain = (@ \/ aq = "Suboptimal")]
              [] aq = "OutOfDate" ->
                    [r EXCEPT !.recreate_swapchain = TRUE, !.iter.returned = TRUE,
                              !.tokens_made = @ + 1,
                              !.previous_frame_end = {[kind |-> "now", id |-> s.tokens_made + 1]}]
              [] OTHER -> [r EXCEPT !.iter.panic = PanicAcquire]

\* acquire_next_image(swapchain, None) and the suboptimal test: aq is the
\* driver's answer, n the image index it returns.
AcquireNextImage(s, aq, n) ==
    IF Stopped(s) THEN s
    ELSE LET r == [Did(s, "acquire_next_image") EXCEPT !.iter.acquire = aq]
         IN CASE aq \in {"Ok", "Suboptimal"} ->
                    [r EXCEPT !.iter.image_num = n,
                              !.iter.acquired_from = s.swapchain.id,
                              !.recreate_swapchain = (@ \/ aq = "Suboptimal")]
              [] aq = "OutOfDate" ->
                    [r EXCEPT !.recreate_swapchain = TRUE, !.iter.returned = TRUE]
              [] OTHER -> [r EXCEPT !.iter.panic = PanicAcquire]

\* A mutant of Draw: the callback also runs in an iteration that returned
\* before it had an image.
DrawEvenIfReturned(s) ==
    IF s.iter.panic # NoPanic THEN s
    ELSE IF s.iter.returned THEN Did(s, "draw")
    ELSE [Did(s, "draw") EXCEPT
             !.iter.drawn = <<s.framebuffers[s.iter.image_num + 1], s.viewport>>]

\* draw(&hardware, &screen, &framebuffers[image_num], &viewport)
Draw(s) ==
    IF Stopped(s) THEN s
    ELSE [Did(s, "draw") EXCEPT
             !.iter.drawn = <<s.framebuffers[s.iter.image_num + 1], s.viewport>>]

\* A mutant of Execute: the submission does not join the acquire future.
ExecuteWithoutJoin(s, ex) ==
    IF Stopped(s) THEN s
    ELSE IF s.previous_frame_end = {}
    THEN [s EXCEPT !.iter.panic = PanicUnwrapNone]
    ELSE LET r == [Did(s, "then_execute") EXCEPT
                      !.previous_frame_end = {},
                      !.iter.execute = ex,
                      !.iter.waits = s.previous_frame_end]
         IN IF ex = "Ok" THEN r ELSE [r EXCEPT !.iter.panic = PanicExecute]

\* previous_frame_end.take().unwrap().join(acquire_future).then_execute(..).unwrap()
Execute(s, ex) ==
    IF Stopped(s) THEN s
    ELSE IF s.previous_frame_end = {}
    THEN [s EXCEPT !.iter.panic = PanicUnwrapNone]
    ELSE LET acquire_future == [kind |-> "acquire", id |-> s.swapchain.id,
                                image |-> s.iter.image_num]
             r == [Did(s, "then_execute") EXCEPT
                      !.previous_frame_end = {},
                      !.iter.execute = ex,
                      !.iter.waits = s.previous_frame_end \cup {acquire_future}]
         IN IF ex = "Ok" THEN r ELSE [r EXCEPT !.iter.panic = PanicExecute]

\* A mutant of Present: the present names the swapchain the handler began with.
PresentStaleSwapchain(s) ==
    IF Stopped(s) THEN s
    ELSE [Did(s, "then_swapchain_present") EXCEPT
             !.iter.presented = <<s.iter.swapchain_at_start.id, s.iter.image_num>>]

\* .then_swapchain_present(queue, swapchain, image_num)
Present(s) ==
    IF Stopped(s) THEN s
    ELSE [Did(s, "then_swapchain_present") EXCEPT
             !.iter.presented = <<s.swapchain.id, s.iter.image_num>>]

\* A fresh token: the flushed frame ("frame") or sync::now ("now")
NewToken(s, kind) == [kind |-> kind, id |-> s.tokens_made + 1]

\* A mutant of Flush: the failed frame's token is kept beside the new one.
FlushKeepsOld(s, fl) ==
    IF Stopped(s) THEN s
    ELSE [Did(s, "then_signal_fence_and_flush") EXCEPT
             !.iter.flush = fl,
             !.tokens_made = @ + 1,
             !.previous_frame_end =
                 {NewToken(s, IF fl = "Ok" THEN "frame" ELSE "now")}
                 \cup {t \in s.iter.waits : t.kind # "acquire"},
             !.recreate_swapchain = (@ \/ fl = "OutOfDate"),
             !.iter.warned = (fl = "Error")]

\* A mutant of Flush: a generic flush failure leaves previous_frame_end empty.
FlushForgetsOnError(s, fl) ==
    IF Stopped(s) THEN s
    ELSE [Did(s, "then_signal_fence_and_flush") EXCEPT
             !.iter.flush = fl,
             !.tokens_made = IF fl = "Error" THEN @ ELSE @ + 1,
             !.previous_frame_end =
                 IF fl = "Error" THEN {}
                 ELSE {NewToken(s, IF fl = "Ok" THEN "frame" ELSE "now")},
             !.recreate_swapchain = (@ \/ fl = "OutOfDate"),
             !.iter.warned = (fl = "Error")]

PanicFlush == "Failed to flush future"

\* A mutant of Flush: a generic flush failure aborts instead of being logged.
FlushErrorPropagates(s, fl) ==
    IF Stopped(s) THEN s
    ELSE IF fl = "Error"
    THEN [Did(s, "then_signal_fence_and_flush") EXCEPT
             !.iter.flush = fl, !.iter.panic = PanicFlush]
    ELSE [Did(s, "then_signal_fence_and_flush") EXCEPT
             !.iter.flush = fl,
             !.tokens_made = @ + 1,
             !.previous_frame_end =
                 {NewToken(s, IF fl = "Ok" THEN "frame" ELSE "now")},
             !.recreate_swapchain = (@ \/ fl = "OutOfDate")]

\* A mutant of Flush: an out-of-date present does not set the flag.
FlushNoFlag(s, fl) ==
    IF Stopped(s) THEN s
    ELSE [Did(s, "then_signal_fence_and_flush") EXCEPT
             !.iter.flush = fl,
             !.tokens_made = @ + 1,
             !.previous_frame_end =
                 {NewToken(s, IF fl = "Ok" THEN "frame" ELSE "now")},
             !.iter.warned = (fl = "Error")]

\* A mutant of Flush: a successful flush unsets the resize flag.
FlushClearsFlag(s, fl) ==
    IF Stopped(s) THEN s
    ELSE [Did(s, "then_signal_fence_and_flush") EXCEPT
             !.iter.flush = fl,
             !.tokens_made = @ + 1,
             !.previous_frame_end =
                 {NewToken(s, IF fl = "Ok" THEN "frame" ELSE "now")},
             !.recreate_swapchain = IF fl = "Ok" THEN FALSE ELSE (@ \/ fl = "OutOfDate"),
             !.iter.warned = (fl = "Error")]

\* A mutant of Flush: every flush failure sets the resize flag.
FlushErrorSetsFlag(s, fl) ==
    IF Stopped(s) THEN s
    ELSE [Did(s, "then_signal_fence_and_flush") EXCEPT
             !.iter.flush = fl,
             !.tokens_made = @ + 1,
             !.previous_frame_end =
                 {NewToken(s, IF fl = "Ok" THEN "frame" ELSE "now")},
             !.recreate_swapchain = (@ \/ fl # "Ok"),
             !.iter.warned = (fl = "Error")]

\* .then_signal_fence_and_flush() and the match on its result
Flush(s, fl) ==
    IF Stopped(s) THEN s
    ELSE LET r == [Did(s, "then_signal_fence_and_flush") EXCEPT
                      !.iter.flush = fl, !.tokens_made = @ + 1]
         IN CASE fl = "Ok" ->
                    [r EXCEPT !.previous_frame_end = {NewToken(s, "frame")}]
              [] fl = "OutOfDate" ->
                    [r EXCEPT !.recreate_swapchain = TRUE,
                              !.previous_frame_end = {NewToken(s, "now")}]
              [] OTHER ->
                    [r EXCEPT !.iter.warned = TRUE,
                              !.previous_frame_end = {NewToken(s, "now")}]

\* The state the Event::RedrawEventsCleared arm begins with: nothing done yet
Began(s) ==
    [s EXCEPT !.iter = [NoIter EXCEPT
                           !.flag_at_start = s.recreate_swapchain,
                           !.token_at_start = s.previous_frame_end,
                           !.swapchain_at_start = s.swapchain]]

\* The body of the Event::RedrawEventsCleared arm: s0 is the state the arm
\* begins with, s1 to s6 the states its statements leave, in order. (Each is
\* bound as the one element of a set, so that it is computed once.)
Redraw(s, extent, rc, aq, n, ex, fl) ==
    CHOOSE r \in
        {Flush(s6, fl) :
             s6 \in {Present(s5) :
             s5 \in {Execute(s4, ex) :
             s4 \in {Draw(s3) :
             s3 \in {AcquireNextImage(s2, aq, n) :
             s2 \in {RecreateSwapchain(s1, rc, extent) :
             s1 \in {CleanupFinished(s0) :
             s0 \in {Began(s)}}}}}}}} : TRUE

LoopState ==
    [recreate_swapchain |-> recreate_swapchain,
     previous_frame_end |-> previous_frame_end,
     tokens_made |-> tokens_made,
     swapchain |-> swapchain,
     framebuffers |-> framebuffers,
     viewport |-> viewport,
     iter |-> iter]

\* The loop before Engine::run
LoopNew ==
    /\ loop_pc = "new"
    /\ control_flow = "Poll"
    /\ window_extent = 1
    /\ recreate_swapchain = FALSE
    /\ previous_frame_end = {}
    /\ tokens_made = 0
    /\ swapchain = [id |-> 0, extent |-> 1, num_images |-> 1]
    /\ framebuffers = <<>>
    /\ viewport = [origin |-> <<0, 0>>, dimensions |-> 0, depth_range |-> <<0, 1>>]
    /\ iter = NoIter
    /\ resizes_pending = "none"
    /\ resizes_before = "none"

\* The state Engine::run has built when it enters event_loop.run
InitLoop ==
    /\ loop_pc = "running"
    /\ control_flow = "Poll"
    /\ window_extent \in Extents
    /\ recreate_swapchain = FALSE
    /\ previous_frame_end = {[kind |-> "now", id |-> 1]}
    /\ tokens_made = 1
    /\ \E k \in 1..MaxImages :
          /\ swapchain = [id |-> 1, extent |-> window_extent, num_images |-> k]
          /\ LET setup == WindowSizeDependentSetup(
                              Images(swapchain),
                              [origin |-> <<0, 0>>, dimensions |-> 0,
                               depth_range |-> <<0, 1>>])
             IN /\ framebuffers = setup.framebuffers
                /\ viewport = setup.viewport
    /\ iter = NoIter
    /\ resizes_pending = "none"
    /\ resizes_before = "none"

\* WindowEvent::CloseRequested
CloseRequested ==
    /\ loop_pc = "running"
    /\ control_flow' = "Exit"
    /\ UNCHANGED <<loop_pc, window_extent, recreate_swapchain, previous_frame_end,
                   tokens_made, swapchain, framebuffers, viewport, iter>>

\* A mutant of Resized: the swapchain is recreated in the event's arm.
ResizedRecreates ==
    /\ loop_pc = "running"
    /\ swapchain.id < MaxSwapchains
    /\ \E e \in Extents :
          /\ window_extent' = e
          /\ swapchain' = [swapchain EXCEPT !.id = @ + 1, !.extent = e]
    /\ recreate_swapchain' = FALSE
    /\ UNCHANGED <<loop_pc, control_flow, previous_frame_end, tokens_made,
                   framebuffers, viewport, iter>>

\* WindowEvent::Resized(_): the window has a new inner size by then
Resized ==
    /\ loop_pc = "running"
    /\ \E e \in Extents : window_extent' = e
    /\ recreate_swapchain' = TRUE
    /\ UNCHANGED <<loop_pc, control_flow, previous_frame_end, tokens_made, swapchain,
                   framebuffers, viewport, iter>>

\* The answers recreate can get in the current state
RecreateAnswers == IF recreate_swapchain THEN RecreateOutcomes ELSE {"NotAsked"}

\* Event::RedrawEventsCleared
RedrawEventsCleared ==
    /\ loop_pc = "running"
    /\ tokens_made < MaxTokens
    /\ \E rc \in RecreateAnswers, aq \in AcquireOutcomes,
          n \in 0..(swapchain.num_images - 1),
          ex \in ExecuteOutcomes, fl \in FlushOutcomes :
          \* an answer of the driver that the handler never asks for is not drawn
          /\ (rc \notin {"Ok", "NotAsked"}) => (aq = "Ok" /\ n = 0)
          /\ (rc \notin {"Ok", "NotAsked"} \/ aq \notin {"Ok", "Suboptimal"})
                 => (n = 0 /\ ex = "Ok")
          /\ (rc \notin {"Ok", "NotAsked"} \/ aq \notin {"Ok", "Suboptimal"} \/ ex # "Ok")
                 => fl = "Ok"
          /\ (recreate_swapchain /\ rc = "Ok") => swapchain.id < MaxSwapchains
          /\ \E r \in {Redraw(LoopState, window_extent, rc, aq, n, ex, fl)} :
                /\ recreate_swapchain' = r.recreate_swapchain
                /\ previous_frame_end' = r.previous_frame_end
                /\ tokens_made' = r.tokens_made
                /\ swapchain' = r.swapchain
                /\ framebuffers' = r.framebuffers
                /\ viewport' = r.viewport
                /\ iter' = r.iter
                /\ loop_pc' = IF r.iter.panic # NoPanic THEN "panicked" ELSE "running"
    /\ UNCHANGED <<control_flow, window_extent>>

\* winit leaves the loop once the handlers of the current batch have run
\* with *control_flow = Exit.
LoopDestroyed ==
    /\ loop_pc = "running"
    /\ control_flow = "Exit"
    /\ loop_pc' = "destroyed"
    /\ UNCHANGED <<control_flow, window_extent, recreate_swapchain, previous_frame_end,
                   tokens_made, swapchain, framebuffers, viewport, iter>>

\* ------------------------------------ Screen::new, Engine::new, Painter::new

Formats == {"B8G8R8A8Srgb", "R8G8B8A8Unorm"}
CompositeAlphas == {"Opaque", "Inherit"}

\* The lists of at most n elements of S
Listed(S, n) == UNION {[1..k -> S] : k \in 0..n}

NoExtent == 0

\* The surface capabilities a constructor reads. current_extent is None
\* (NoExtent) where the surface takes its size from the swapchain, and the
\* size of the window otherwise.
Capabilities(size) ==
    [min_image_count : 1..MaxImages,
     supported_formats : Listed(Formats, MaxListed),
     supported_composite_alpha : Listed(CompositeAlphas, MaxListed),
     current_extent : {NoExtent, size}]

PanicAlpha == "Could not select any alpha capabilities"
PanicFormat == "Could not select any format capabilities"
PanicAlphaOld == "Couldn't get the supported alpha"
PanicIndex == "index out of bounds"

\* The extent standing for [1280, 1024]
FallbackExtent == 1

\* Swapchain::start(device, surface): the builder before any setter is called.
\* The present mode of a builder is Fifo until present_mode() changes it.
SwapchainStart ==
    [num_images |-> 0, format |-> "unset", dimensions |-> NoExtent,
     usage |-> {}, composite_alpha |-> "unset", present_mode |-> "Fifo"]

NotCreated(constructor, message) ==
    [constructor |-> constructor, panic |-> message, info |-> SwapchainStart]

\* Screen::new: "Creating the swap-chain"
ScreenNewResult(caps, size) ==
    IF caps.supported_composite_alpha = <<>> THEN NotCreated("Screen::new", PanicAlpha)
    ELSE IF caps.supported_formats = <<>> THEN NotCreated("Screen::new", PanicFormat)
    ELSE [constructor |-> "Screen::new", panic |-> NoPanic,
          info |-> [SwapchainStart EXCEPT
                       !.num_images = caps.min_image_count,
                       !.format = caps.supported_formats[1],
                       !.dimensions = size,
                       !.usage = {"color_attachment"},
                       !.composite_alpha = caps.supported_composite_alpha[1]]]

\* Engine::new (engine/src/engine.rs) and Painter::new: "Creating the swap-chain"
OldSwapchainResult(constructor, caps, size) ==
    IF caps.supported_composite_alpha = <<>> THEN NotCreated(constructor, PanicAlphaOld)
    ELSE IF caps.supported_formats = <<>> THEN NotCreated(constructor, PanicIndex)
    ELSE [constructor |-> constructor, panic |-> NoPanic,
          info |-> [SwapchainStart EXCEPT
                       !.num_images = caps.min_image_count,
                       !.format = caps.supported_formats[1],
                       !.dimensions = IF caps.current_extent = NoExtent
                                      THEN FallbackExtent ELSE caps.current_extent,
                       !.usage = {"color_attachment"},
                       !.composite_alpha = caps.supported_composite_alpha[1],
                       !.present_mode = "Fifo"]]

\* The constructors' variables where the constructors are not what is run:
\* SpecHardware stops before them, and Spec starts from the swapchain they
\* left (InitLoop) without keeping what it was created from.
ScreenNotRun ==
    /\ screen_pc = "new"
    /\ surface_capabilities = [min_image_count |-> 1,
                               supported_formats |-> <<"B8G8R8A8Srgb">>,
                               supported_composite_alpha |-> <<"Opaque">>,
                               current_extent |-> NoExtent]
    /\ inner_size = 1
    /\ swapchain_create = NotCreated("none", NoPanic)

InitScreen ==
    /\ screen_pc = "new"
    /\ inner_size \in Extents
    /\ surface_capabilities \in Capabilities(inner_size)
    /\ swapchain_create = NotCreated("none", NoPanic)

ScreenNew ==
    /\ screen_pc = "new"
    /\ swapchain_create' = ScreenNewResult(surface_capabilities, inner_size)
    /\ screen_pc' = "done"
    /\ UNCHANGED <<surface_capabilities, inner_size>>

EngineNew ==
    /\ screen_pc = "new"
    /\ swapchain_create' = OldSwapchainResult("Engine::new", surface_capabilities, inner_size)
    /\ screen_pc' = "done"
    /\ UNCHANGED <<surface_capabilities, inner_size>>

PainterNew ==
    /\ screen_pc = "new"
    /\ swapchain_create' = OldSwapchainResult("Painter::new", surface_capabilities, inner_size)
    /\ screen_pc' = "done"
    /\ UNCHANGED <<surface_capabilities, inner_size>>

\* ------------------------------------------------------------ specifications

HardwareNotRun ==
    /\ hw_pc = "new"
    /\ hw_panic = NoPanic
    /\ graphics_physical = 0
    /\ graphics_family = 0
    /\ compute_physical = 0
    /\ compute_family = 0
    /\ queues_count = 0
    /\ required_extensions = [graphics |-> {}, compute |-> {}]
    /\ devices = <<>>
    /\ graphics_queue = NoQueue
    /\ compute_queue = NoQueue

InitHardware ==
    /\ \E s \in Shapes : adapters \in AdapterLists(s)
    /\ HardwareNotRun
    /\ LoopNew
    /\ ScreenNotRun

HardwareNew ==
    /\ hw_pc = "new"
    /\ \E qc \in 1..MaxQueues, rg \in RequiredExtensionSets, rc \in RequiredExtensionSets :
          \* (r is bound by a quantifier so that it is computed once)
          \E r \in {HardwareNewResult(adapters, qc, rg, rc)} :
             \* an adapter gives one answer; one that is not asked gives none
             /\ (r.graphics_physical = r.compute_physical) => (rc = rg)
             /\ (r.panic \in {PanicGraphicsFamily, PanicComputeFamily})
                    => (rg = {} /\ rc = {})
             /\ required_extensions' = [graphics |-> rg, compute |-> rc]
             /\ hw_panic' = r.panic
             /\ graphics_physical' = r.graphics_physical
             /\ graphics_family' = r.graphics_family
             /\ compute_physical' = r.compute_physical
             /\ compute_family' = r.compute_family
             /\ queues_count' = IF r.asked_two THEN qc ELSE 0
             /\ devices' = r.devices
             /\ graphics_queue' = r.graphics_queue
             /\ compute_queue' = r.compute_queue
    /\ hw_pc' = "done"
    /\ UNCHANGED adapters
    /\ UNCHANGED loop_vars
    /\ UNCHANGED screen_vars

NextHardware == HardwareNew

SpecHardware == InitHardware /\ [][NextHardware]_vars

\* Hardware::graphics_device: the device of the graphics queue
GraphicsDevice == graphics_queue.device

\* Hardware::compute_device: the device of the compute queue
ComputeDevice == compute_queue.device

\* The machine the frame loop runs on: one discrete adapter whose only family
\* does graphics, presentation and compute and has two queues.
LoopAdapters ==
    <<[device_type |-> "DiscreteGpu", khr_swapchain |-> TRUE,
       families |-> <<[supports_graphics |-> TRUE, supports_surface |-> TRUE,
                       supports_compute |-> TRUE]>>]>>

Init ==
    /\ adapters = LoopAdapters
    /\ LET r == HardwareNewResult(adapters, MaxQueues, {}, {})
       IN /\ hw_pc = "done"
          /\ hw_panic = r.panic
          /\ graphics_physical = r.graphics_physical
          /\ graphics_family = r.graphics_family
          /\ compute_physical = r.compute_physical
          /\ compute_family = r.compute_family
          /\ queues_count = MaxQueues
          /\ required_extensions = [graphics |-> {}, compute |-> {}]
          /\ devices = r.devices
          /\ graphics_queue = r.graphics_queue
          /\ compute_queue = r.compute_queue
    /\ InitLoop
    /\ ScreenNotRun

history_vars == <<resizes_pending, resizes_before>>

Next ==
    \/ (CloseRequested /\ UNCHANGED <<hw_vars, screen_vars, history_vars>>)
    \/ (Resized /\ UNCHANGED <<hw_vars, screen_vars, history_vars>>)
    \/ (RedrawEventsCleared /\ UNCHANGED <<hw_vars, screen_vars, history_vars>>)
    \/ (LoopDestroyed /\ UNCHANGED <<hw_vars, screen_vars, history_vars>>)

Spec == Init /\ [][Next]_vars

\* The event loop with the Resized events counted: the handlers are those of
\* Spec, and the two counters record how many Resized events came between
\* two RedrawEventsCleared events.
ResizedCounted ==
    /\ Resized
    /\ resizes_pending' = IF resizes_pending = "none" THEN "one" ELSE "several"
    /\ resizes_before' = "none"

RedrawEventsClearedCounted ==
    /\ RedrawEventsCleared
    /\ resizes_before' = resizes_pending
    /\ resizes_pending' = "none"

NextCounted ==
    \/ (CloseRequested /\ UNCHANGED <<hw_vars, screen_vars, history_vars>>)
    \/ (ResizedCounted /\ UNCHANGED <<hw_vars, screen_vars>>)
    \/ (RedrawEventsClearedCounted /\ UNCHANGED <<hw_vars, screen_vars>>)
    \/ (LoopDestroyed /\ UNCHANGED <<hw_vars, screen_vars, history_vars>>)

SpecCounted == Init /\ [][NextCounted]_vars

\* The event loop with a driver that does not reject the window's extent for
\* ever. RedrawAccepted is the step in which the handler, having cleaned up,
\* asks for the recreate, gets Ok and installs the new swapchain: among the
\* steps of Next, the RedrawEventsCleared steps whose recreate the driver
\* accepted. winit (ControlFlow::Poll) emits RedrawEventsCleared again and
\* again while the loop runs; weak fairness says that a driver that is asked
\* again and again does not refuse for ever.
RedrawAccepted ==
    /\ loop_pc = "running"
    /\ tokens_made < MaxTokens
    /\ recreate_swapchain
    /\ swapchain.id < MaxSwapchains
    /\ \E s0 \in {Began(LoopState)} :
       \E s1 \in {CleanupFinished(s0)} :
       \E r \in {RecreateSwapchain(s1, "Ok", window_extent)} :
          /\ r.iter.recreate = "Ok"
          /\ r.swapchain # swapchain
          /\ swapchain' = r.swapchain

SpecFair == Init /\ [][Next]_vars /\ WF_swapchain(RedrawAccepted)

\* The three constructors that create a swapchain, each on every bounded
\* surface, before the loop and with the hardware of LoopAdapters.
InitSwapchain ==
    /\ adapters = LoopAdapters
    /\ HardwareNotRun
    /\ LoopNew
    /\ InitScreen

NextSwapchain ==
    \/ (ScreenNew /\ UNCHANGED <<hw_vars, loop_vars>>)
    \/ (EngineNew /\ UNCHANGED <<hw_vars, loop_vars>>)
    \/ (PainterNew /\ UNCHANGED <<hw_vars, loop_vars>>)

SpecSwapchain == InitSwapchain /\ [][NextSwapchain]_vars

\* ------------------------------------------------- properties: Hardware::new

\* The adapters that pass the extension filter
Compatible == {i \in 1..Len(adapters) : adapters[i].khr_swapchain}

\* The compatible adapters that have a family suitable for the role
WithFamily(role) ==
    {i \in Compatible :
        \E j \in 1..Len(adapters[i].families) : Suitable(adapters[i].families[j], role)}

ScoreOf(i) == Score(adapters[i].device_type)

\* i has the lowest score of the adapters in S
Best(i, S) == i \in S /\ \A k \in S : ScoreOf(i) <= ScoreOf(k)

FamilyPanics == {PanicGraphicsFamily, PanicComputeFamily}

Selected == hw_pc = "done" /\ graphics_physical # 0 /\ compute_physical # 0

\* C1, as stated: the adapter selection returns for graphics and the adapter
\* it returns for compute are each the lowest-scored of all the
\* extension-compatible adapters.
C1_Original ==
    (Selected /\ Compatible # {}) =>
        /\ Best(graphics_physical, Compatible)
        /\ Best(compute_physical, Compatible)

\* C1, amended: whenever each role has an extension-compatible adapter with a
\* family suitable for it, selection succeeds, and the adapter selected for a
\* role is the lowest-scored of the extension-compatible adapters that have a
\* family suitable for that role.
C1_BestWithFamily ==
    (hw_pc = "done" /\ WithFamily("graphics") # {} /\ WithFamily("compute") # {}) =>
        /\ hw_panic \notin FamilyPanics
        /\ Best(graphics_physical, WithFamily("graphics"))
        /\ Best(compute_physical, WithFamily("compute"))

\* C1's case: an adapter was selected for graphics although a compatible
\* adapter of a better class exists (that one has no suitable family).
C1_Witness ==
    /\ hw_pc = "done"
    /\ graphics_physical # 0
    /\ compute_physical # 0
    /\ \E i \in Compatible : ScoreOf(i) < ScoreOf(graphics_physical)

\* C2, as stated: when no adapter supports the required extensions,
\* Hardware::new fails with an error of its own, not with one of the
\* queue-family errors, and creates no logical device.
C2_DistinctError ==
    (hw_pc = "done" /\ Compatible = {}) =>
        /\ hw_panic # NoPanic
        /\ hw_panic \notin FamilyPanics
        /\ devices = <<>>

\* C3: when some adapter passes the extension filter but no filtered adapter
\* has a family suitable for graphics (or none has one suitable for compute),
\* Hardware::new fails with the queue-family error of that role and has
\* created no logical device and no queue.
C3_NoSuitableQueueFamily ==
    (hw_pc = "done" /\ Compatible # {}) =>
        /\ (WithFamily("graphics") = {}) => hw_panic = PanicGraphicsFamily
        /\ (WithFamily("graphics") # {} /\ WithFamily("compute") = {})
              => hw_panic = PanicComputeFamily
        /\ (WithFamily("graphics") = {} \/ WithFamily("compute") = {})
              => (devices = <<>> /\ graphics_queue = NoQueue /\ compute_queue = NoQueue)

\* C3's case: graphics found its family, compute did not.
C3_Witness ==
    /\ hw_pc = "done"
    /\ Compatible # {}
    /\ WithFamily("graphics") # {}
    /\ WithFamily("compute") = {}
    /\ hw_panic = PanicComputeFamily

\* The number of queues the created devices were asked for
RECURSIVE QueuesAsked(_)
QueuesAsked(infos) ==
    IF infos = <<>> THEN 0 ELSE Head(infos).queues + QueuesAsked(Tail(infos))

\* C4, as stated: one logical device when graphics and compute resolve to the
\* same adapter and family; one logical device with two queues, one per family,
\* when they resolve to the same adapter and different families; two logical
\* devices with one queue each when they resolve to different adapters.
C4_DeviceCount ==
    Selected =>
        /\ (graphics_physical = compute_physical /\ graphics_family = compute_family)
              => Len(devices) = 1
        /\ (graphics_physical = compute_physical /\ graphics_family # compute_family)
              => /\ Len(devices) = 1
                 /\ devices[1].queue_create_infos =
                        <<[family |-> graphics_family, queues |-> 1],
                          [family |-> compute_family, queues |-> 1]>>
        /\ (graphics_physical # compute_physical)
              => /\ Len(devices) = 2
                 /\ \A d \in 1..2 : QueuesAsked(devices[d].queue_create_infos) = 1

\* C5, as stated: on the same adapter and family, two queues are asked for
\* only if the family has at least two; with exactly one queue a single queue
\* is asked for, creation succeeds, and that queue serves both roles.
C5_SingleQueueAliased ==
    (Selected /\ graphics_physical = compute_physical
              /\ graphics_family = compute_family) =>
        /\ (queues_count = 1) =>
              /\ hw_panic = NoPanic
              /\ Len(devices) = 1
              /\ QueuesAsked(devices[1].queue_create_infos) = 1
              /\ graphics_queue = compute_queue
              /\ graphics_queue # NoQueue
        /\ (queues_count >= 2) =>
              /\ hw_panic = NoPanic
              /\ Len(devices) = 1
              /\ QueuesAsked(devices[1].queue_create_infos) = 2

\* ---------------------------------------------------- properties: Engine::run

Tokens(S) == {t \in S : t.kind \in {"now", "frame"}}

\* Whether the handler performed op
Performed(op) == \E k \in 1..Len(iter.ops) : iter.ops[k] = op

\* The position of op among the operations of the handler, 0 if not performed
Position(ops, op) ==
    LET at == {k \in 1..Len(ops) : ops[k] = op}
    IN IF at = {} THEN 0 ELSE CHOOSE k \in at : \A m \in at : k <= m

\* previous_frame_end holds one token, created by sync::now after every token
\* the latest handler saw or waited on
FreshNowToken ==
    /\ Cardinality(previous_frame_end) = 1
    /\ \A t \in previous_frame_end :
          /\ t.kind = "now"
          /\ t.id = tokens_made
          /\ t \notin iter.token_at_start
          /\ t \notin iter.waits
          /\ \A u \in Tokens(iter.token_at_start \cup iter.waits) : u.id < t.id

\* C6: between any two handler invocations the loop retains at most one
\* previous-frame completion token.
C6_AtMostOneToken == Cardinality(previous_frame_end) <= 1

\* C6's case: several tokens have been created and one is retained.
C6_Witness ==
    /\ tokens_made = MaxTokens
    /\ iter.flush = "Ok"
    /\ Cardinality(previous_frame_end) = 1

\* C7: whenever an iteration can begin (the loop has not stopped) exactly one
\* previous-frame token is live, and neither the cleanup nor the take at the
\* start of submission ever finds it missing.
C7_TokenPresentAtStart ==
    /\ (loop_pc = "running") => Cardinality(previous_frame_end) = 1
    /\ iter.panic # PanicUnwrapNone
    /\ (iter.ops # <<>>) => Cardinality(iter.token_at_start) = 1

\* C7's case: an iteration began after one whose flush failed.
C7_Witness ==
    /\ loop_pc = "running"
    /\ iter.flush = "Error"
    /\ \E t \in iter.token_at_start : t.kind = "now" /\ t.id > 1
    /\ Cardinality(previous_frame_end) = 1

\* C8: an iteration whose acquire reported out-of-date leaves the resize flag
\* set and performed no draw, no submission and no present; and the next
\* iteration invokes recreate before it acquires an image.
C8_AcquireOutOfDate ==
    /\ [](iter.acquire = "OutOfDate" =>
            /\ recreate_swapchain
            /\ iter.returned
            /\ ~Performed("draw")
            /\ ~Performed("then_execute")
            /\ ~Performed("then_swapchain_present")
            /\ ~Performed("then_signal_fence_and_flush"))
    /\ [][(iter.acquire = "OutOfDate" /\ RedrawEventsCleared) =>
            /\ Position(iter'.ops, "recreate") = 2
            /\ Position(iter'.ops, "acquire_next_image") \in {0, 3}]_vars

\* C8's case: the acquire of the latest iteration, which began with the flag
\* unset, reported out-of-date.
C8_Witness ==
    /\ iter.acquire = "OutOfDate"
    /\ ~iter.flag_at_start
    /\ recreate_swapchain

\* C9: after a flush failure other than out-of-date the condition was logged,
\* the loop has not aborted, and previous_frame_end holds a fresh sync::now
\* token, not the failed frame's.
C9_FlushFailure ==
    (iter.flush = "Error") =>
        /\ iter.warned
        /\ iter.panic = NoPanic
        /\ loop_pc # "panicked"
        /\ FreshNowToken

\* C9's case: the flush of a frame that waited on an earlier frame failed.
C9_Witness ==
    /\ iter.flush = "Error"
    /\ \E t \in iter.waits : t.kind = "frame"
    /\ loop_pc = "running"

\* C10: after a flush that reported out-of-date the resize flag is set,
\* previous_frame_end holds a fresh sync::now token, and the loop has not
\* aborted.
C10_FlushOutOfDate ==
    (iter.flush = "OutOfDate") =>
        /\ recreate_swapchain
        /\ FreshNowToken
        /\ iter.panic = NoPanic
        /\ loop_pc # "panicked"

\* C10's case: the flush reported out-of-date in an iteration that began with
\* the flag unset and acquired its image without a warning.
C10_Witness ==
    /\ iter.flush = "OutOfDate"
    /\ ~iter.flag_at_start
    /\ iter.acquire = "Ok"
    /\ loop_pc = "running"

\* C11: an iteration whose recreate was rejected for an unsupported extent
\* leaves the swapchain, the framebuffers and the viewport as they were,
\* performs no acquire, no draw and no submission, and leaves the resize flag
\* set; the next iteration invokes recreate again.
C11_RecreateRejected ==
    /\ [](iter.recreate = "ImageExtentNotSupported" =>
            /\ recreate_swapchain
            /\ iter.returned
            /\ iter.ops = <<"cleanup_finished", "recreate">>
            /\ iter.drawn = <<>>
            /\ iter.waits = {}
            /\ iter.presented = <<>>)
    /\ [][(iter'.recreate = "ImageExtentNotSupported" /\ RedrawEventsCleared) =>
            /\ swapchain' = swapchain
            /\ framebuffers' = framebuffers
            /\ viewport' = viewport
            /\ previous_frame_end' = previous_frame_end]_vars
    /\ [][(iter.recreate = "ImageExtentNotSupported" /\ RedrawEventsCleared) =>
            Position(iter'.ops, "recreate") = 2]_vars

\* C11's case: recreate was rejected on a swapchain that an earlier recreate
\* built, while the window has another extent than the swapchain.
C11_Witness ==
    /\ iter.recreate = "ImageExtentNotSupported"
    /\ window_extent # swapchain.extent
    /\ recreate_swapchain
    /\ loop_pc = "running"

\* The framebuffers are the ones window_size_dependent_setup builds from the
\* images of the current swapchain
FramebuffersOfSwapchain ==
    framebuffers = WindowSizeDependentSetup(Images(swapchain), viewport).framebuffers

\* C12: in every state between handler invocations the framebuffers were built
\* from the images of the current swapchain (same swapchain, same extent, one
\* per image), and every step replaces the swapchain and the framebuffers
\* together or neither of them.
C12_FramebuffersMatchSwapchain ==
    /\ [](/\ FramebuffersOfSwapchain
          /\ \A i \in 1..Len(framebuffers) :
                /\ framebuffers[i].image.swapchain = swapchain.id
                /\ framebuffers[i].image.extent = swapchain.extent)
    /\ [][(swapchain' # swapchain) <=> (framebuffers' # framebuffers)]_vars

\* C12's case: a recreate installed a new swapchain and the handler went on to
\* draw into one of the framebuffers built from it.
C12_Witness ==
    /\ iter.recreate = "Ok"
    /\ swapchain.id > 1
    /\ viewport.dimensions = swapchain.extent
    /\ Performed("draw")
    /\ iter.drawn[1].image.swapchain = swapchain.id

\* The extent of each framebuffer of fbs, in order
FramebufferExtents(fbs) == [i \in 1..Len(fbs) |-> fbs[i].image.extent]

\* C13: when a successful recreate follows a successful recreate and the
\* window has the same extent both times, the second yields as many
\* framebuffers as the first, of the same extent image by image, and the same
\* viewport dimensions. (Only a successful recreate replaces the swapchain.)
C13_RecreateIdempotent ==
    [][(/\ swapchain.id > 1
        /\ window_extent = swapchain.extent
        /\ swapchain' # swapchain) =>
            /\ iter'.recreate = "Ok"
            /\ swapchain'.id = swapchain.id + 1
            /\ Len(framebuffers') = Len(framebuffers)
            /\ FramebufferExtents(framebuffers') = FramebufferExtents(framebuffers)
            /\ viewport'.dimensions = viewport.dimensions]_vars

\* C13's case: the latest handler recreated, with success and for the same
\* extent, a swapchain that a recreate had built.
C13_Witness ==
    /\ iter.recreate = "Ok"
    /\ iter.swapchain_at_start.id > 1
    /\ swapchain.id = iter.swapchain_at_start.id + 1
    /\ swapchain.extent = iter.swapchain_at_start.extent
    /\ Len(framebuffers) > 1

\* C14, as stated: once a close request has been handled, no handler invocation
\* draws, submits or asks for a present: a RedrawEventsCleared delivered after
\* CloseRequested produces no frame.
C14_NoFrameAfterClose ==
    [][(control_flow = "Exit" /\ RedrawEventsCleared) =>
            /\ Position(iter'.ops, "draw") = 0
            /\ Position(iter'.ops, "then_execute") = 0
            /\ Position(iter'.ops, "then_swapchain_present") = 0]_vars

\* How many times the handler performed op
Count(op) == Cardinality({k \in 1..Len(iter.ops) : iter.ops[k] = op})

Acquired == iter.acquire \in {"Ok", "Suboptimal"}

\* C15: a handler invocation that acquired an image (suboptimal or not)
\* invoked the draw callback exactly once, right after the acquire and on the
\* framebuffer of the acquired image; an invocation that acquired none did not
\* invoke it.
C15_DrawOncePerAcquiredImage ==
    /\ Acquired =>
          /\ Count("draw") = 1
          /\ Position(iter.ops, "draw") = Position(iter.ops, "acquire_next_image") + 1
          /\ iter.drawn = <<framebuffers[iter.image_num + 1], viewport>>
    /\ ~Acquired =>
          /\ Count("draw") = 0
          /\ iter.drawn = <<>>

\* C15's case: after a recreate the handler acquired the second image of the
\* new swapchain and drew into its framebuffer.
C15_Witness ==
    /\ iter.recreate = "Ok"
    /\ Acquired
    /\ iter.image_num = 1
    /\ Count("draw") = 1
    /\ iter.drawn[1].image.index = 1

\* C16: a handler invocation whose acquire succeeded with the suboptimal mark
\* still invoked the draw callback and submitted the frame and, the submission
\* accepted, asked for the present of the acquired image on the current
\* swapchain and flushed; it leaves the resize flag set, and the next
\* invocation runs recreate first.
C16_SuboptimalProceeds ==
    /\ [](iter.acquire = "Suboptimal" =>
            /\ recreate_swapchain
            /\ ~iter.returned
            /\ Count("draw") = 1
            /\ Count("then_execute") = 1
            /\ [kind |-> "acquire", id |-> swapchain.id, image |-> iter.image_num]
                   \in iter.waits
            /\ (iter.panic = NoPanic) =>
                  /\ iter.presented = <<swapchain.id, iter.image_num>>
                  /\ iter.ops[Len(iter.ops)] = "then_signal_fence_and_flush"
                  /\ iter.flush \in FlushOutcomes)
    /\ [][(iter.acquire = "Suboptimal" /\ RedrawEventsCleared) =>
            Position(iter'.ops, "recreate") = 2]_vars

\* C16's case: an invocation that began with the flag unset acquired a
\* suboptimal image, presented it, and left the flag set.
C16_Witness ==
    /\ iter.acquire = "Suboptimal"
    /\ ~iter.flag_at_start
    /\ iter.flush = "Ok"
    /\ iter.presented = <<swapchain.id, iter.image_num>>
    /\ recreate_swapchain
    /\ loop_pc = "running"

\* The acquire signal of the image the latest handler acquired
AcquireFuture == [kind |-> "acquire", id |-> swapchain.id, image |-> iter.image_num]

\* C17: a submission waits on exactly two signals: the token that
\* previous_frame_end held when the handler began, which is the latest token
\* made (the one of the latest flush), and the acquire signal of the image
\* acquired in this invocation; an invocation that does not submit waits on
\* nothing.
C17_SubmissionWaits ==
    /\ [](/\ Performed("then_execute") =>
                /\ Cardinality(iter.waits) = 2
                /\ iter.waits = iter.token_at_start \cup {AcquireFuture}
                /\ Cardinality(Tokens(iter.waits)) = 1
                /\ \A t \in Tokens(iter.waits) :
                      t.id = IF Performed("then_signal_fence_and_flush")
                             THEN tokens_made - 1 ELSE tokens_made
          /\ ~Performed("then_execute") => iter.waits = {}
          /\ \A t \in previous_frame_end : t.id = tokens_made)
    /\ [][(iter' # iter /\ Position(iter'.ops, "then_execute") # 0) =>
            /\ Tokens(iter'.waits) = previous_frame_end
            /\ (iter.flush = "Ok") => \A t \in Tokens(iter'.waits) : t.kind = "frame"]_vars

\* C17's case: the submission waited on the token of the frame flushed before
\* it and on the acquire signal of the second image.
C17_Witness ==
    /\ Performed("then_execute")
    /\ \E t \in iter.waits : t.kind = "frame"
    /\ AcquireFuture \in iter.waits
    /\ iter.image_num = 1
    /\ Cardinality(iter.waits) = 2

FatalAnswer ==
    \/ iter.recreate = "Error"
    \/ iter.acquire = "Error"
    \/ iter.execute = "Error"

C19_FatalDriverErrors ==
    /\ (iter.recreate = "Error") =>
          /\ iter.panic = PanicRecreate
          /\ iter.ops = <<"cleanup_finished", "recreate">>
    /\ (iter.acquire = "Error") =>
          /\ iter.panic = PanicAcquire
          /\ iter.ops[Len(iter.ops)] = "acquire_next_image"
    /\ (iter.recreate = "Error" \/ iter.acquire = "Error") =>
          /\ loop_pc = "panicked"
          /\ Count("draw") = 0
          /\ Count("then_execute") = 0
          /\ Count("then_signal_fence_and_flush") = 0
          /\ iter.drawn = <<>>
          /\ iter.waits = {}
          /\ previous_frame_end = iter.token_at_start

\* C19's case: the handler recreated the swapchain and the acquire that
\* followed failed with an error other than out-of-date.
C19_Witness ==
    /\ iter.recreate = "Ok"
    /\ iter.acquire = "Error"
    /\ loop_pc = "panicked"

\* ------------------------------------------- properties: Hardware::new, scores

TypeOf(i) == adapters[i].device_type

\* The adapter chosen for the role is of the software class only if no
\* suitable adapter is of a class of allowed
OnlyBeats(chosen, role, allowed) ==
    (chosen # 0 /\ TypeOf(chosen) = "Cpu") =>
        \A i \in WithFamily(role) : TypeOf(i) \in allowed

\* C20, as stated: software is the worst class, so a software adapter is not
\* chosen for a role while an adapter of any other class is suitable for it.
C20_Original ==
    (hw_pc = "done") =>
        /\ OnlyBeats(graphics_physical, "graphics", {"Cpu"})
        /\ OnlyBeats(compute_physical, "compute", {"Cpu"})

\* C20, amended: the scores are discrete 0, integrated 1, virtual 2, software
\* 3 and other 4; a software adapter is not chosen for a role while a
\* discrete, integrated or virtual adapter is suitable for it, and an adapter
\* of class other is chosen only when every suitable adapter is of that class.
C20_SoftwareBeforeOther ==
    (hw_pc = "done") =>
        /\ Score("DiscreteGpu") = 0 /\ Score("IntegratedGpu") = 1
        /\ Score("VirtualGpu") = 2 /\ Score("Cpu") = 3 /\ Score("Other") = 4
        /\ OnlyBeats(graphics_physical, "graphics", {"Cpu", "Other"})
        /\ OnlyBeats(compute_physical, "compute", {"Cpu", "Other"})
        /\ (graphics_physical # 0 /\ TypeOf(graphics_physical) = "Other") =>
              \A i \in WithFamily("graphics") : TypeOf(i) = "Other"
        /\ (compute_physical # 0 /\ TypeOf(compute_physical) = "Other") =>
              \A i \in WithFamily("compute") : TypeOf(i) = "Other"

\* C20's case: a software adapter was chosen for graphics although an adapter
\* of class other is suitable for graphics too.
C20_Witness ==
    /\ Selected
    /\ TypeOf(graphics_physical) = "Cpu"
    /\ \E i \in WithFamily("graphics") : TypeOf(i) = "Other"

\* ------------------------------------- properties: Hardware::new, independence

\* The enumeration in another order (p a permutation of its positions)
Permuted(ads, p) == [i \in 1..Len(ads) |-> ads[p[i]]]

\* The adapter and the family Hardware::new chooses for the role on ads
ChosenFor(ads, role) ==
    LET s == SelectFor(ads, role)
    IN IF s = <<>> THEN <<>>
       ELSE <<ads[MinByKey(s).physical], MinByKey(s).family>>

\* No two adapters suitable for the role have the same score
DistinctScores(role) ==
    \A i, j \in WithFamily(role) : (i # j) => (ScoreOf(i) # ScoreOf(j))

\* The enumeration is an integrated and a discrete adapter, in either order,
\* both with the extension and with families suitable for both roles
IntegratedAndDiscrete ==
    /\ Len(adapters) = 2
    /\ {TypeOf(1), TypeOf(2)} = {"IntegratedGpu", "DiscreteGpu"}
    /\ WithFamily("graphics") = {1, 2}
    /\ WithFamily("compute") = {1, 2}

\* C21: when the adapters suitable for a role have different scores, the
\* adapter and family Hardware::new chose for the role are the ones it chooses
\* on every permutation of the enumeration; of an integrated and a discrete
\* adapter, both suitable, the discrete one is chosen in either order.
C21_OrderIndependent ==
    (hw_pc = "done") =>
        /\ (graphics_physical # 0 /\ DistinctScores("graphics")) =>
              \A p \in Permutations(1..Len(adapters)) :
                  ChosenFor(Permuted(adapters, p), "graphics")
                      = <<adapters[graphics_physical], graphics_family>>
        /\ (compute_physical # 0 /\ DistinctScores("compute")) =>
              \A p \in Permutations(1..Len(adapters)) :
                  ChosenFor(Permuted(adapters, p), "compute")
                      = <<adapters[compute_physical], compute_family>>
        /\ IntegratedAndDiscrete =>
              /\ graphics_physical # 0 /\ TypeOf(graphics_physical) = "DiscreteGpu"
              /\ compute_physical # 0 /\ TypeOf(compute_physical) = "DiscreteGpu"

\* C21's case: the integrated adapter is enumerated first, the discrete one
\* second, and the second was chosen.
C21_Witness ==
    /\ hw_pc = "done"
    /\ IntegratedAndDiscrete
    /\ TypeOf(1) = "IntegratedGpu"
    /\ graphics_physical = 2
    /\ compute_physical = 2

\* The enumeration with no family able to do graphics or to present
WithoutGraphics(ads) ==
    [i \in 1..Len(ads) |->
        [ads[i] EXCEPT !.families =
            [j \in 1..Len(ads[i].families) |->
                [ads[i].families[j] EXCEPT !.supports_graphics = FALSE,
                                           !.supports_surface = FALSE]]]]

\* C22: once graphics has its family, compute is given the lowest-scored
\* adapter among the extension-compatible ones with a compute-capable family,
\* and the first such family of it: the choice made on the same enumeration
\* with all graphics and presentation support removed, whatever adapter
\* graphics was given.
C22_ComputeIndependent ==
    (hw_pc = "done" /\ graphics_physical # 0) =>
        /\ (WithFamily("compute") # {}) <=> (compute_physical # 0)
        /\ (compute_physical # 0) =>
              /\ Best(compute_physical, WithFamily("compute"))
              /\ compute_family =
                     FindFamily(adapters[compute_physical].families, "compute")
              /\ LET s == SelectFor(WithoutGraphics(adapters), "compute")
                 IN /\ s # <<>>
                    /\ MinByKey(s).physical = compute_physical
                    /\ MinByKey(s).family = compute_family

\* C22's case: compute was given a better-scored adapter than graphics, one
\* that cannot present.
C22_Witness ==
    /\ Selected
    /\ hw_panic = NoPanic
    /\ graphics_physical # compute_physical
    /\ ScoreOf(compute_physical) < ScoreOf(graphics_physical)
    /\ compute_physical \notin WithFamily("graphics")
    /\ Len(devices) = 2

\* What required_extensions() answered for the adapter of device d
RequiredOf(d) ==
    IF devices[d].physical = graphics_physical
    THEN required_extensions.graphics
    ELSE required_extensions.compute

\* C23: every logical device Hardware::new created (the shared one, or the
\* graphics one and the compute one) has as enabled extensions the union of
\* the required extensions of its own adapter and the engine's khr_swapchain.
C23_EnabledExtensions ==
    (hw_pc = "done") =>
        /\ \A d \in 1..Len(devices) :
              /\ devices[d].enabled_extensions = RequiredOf(d) \cup {"khr_swapchain"}
              /\ devices[d].physical \in {graphics_physical, compute_physical}
        /\ (hw_panic = NoPanic) =>
              /\ devices[graphics_queue.device].physical = graphics_physical
              /\ devices[compute_queue.device].physical = compute_physical
              /\ devices[compute_queue.device].enabled_extensions
                     = required_extensions.compute \cup {"khr_swapchain"}

\* C23's case: two devices were created, and only the compute adapter
\* requires an extension of its own.
C23_Witness ==
    /\ hw_pc = "done"
    /\ Len(devices) = 2
    /\ required_extensions.graphics = {}
    /\ required_extensions.compute = {"khr_portability_subset"}
    /\ devices[1].enabled_extensions = {"khr_swapchain"}
    /\ devices[2].enabled_extensions = {"khr_swapchain", "khr_portability_subset"}

\* ----------------------------------------------- properties: swapchain creation

\* C24, as stated: the swapchain a constructor creates has the reported
\* minimum image count, the first reported format, the first reported
\* composite alpha mode, the window's client size as extent, the FIFO present
\* mode and the colour-attachment usage alone.
C24_SwapchainParameters ==
    (screen_pc = "done" /\ swapchain_create.panic = NoPanic) =>
        /\ swapchain_create.info.num_images = surface_capabilities.min_image_count
        /\ swapchain_create.info.format = surface_capabilities.supported_formats[1]
        /\ swapchain_create.info.composite_alpha
               = surface_capabilities.supported_composite_alpha[1]
        /\ swapchain_create.info.dimensions = inner_size
        /\ swapchain_create.info.present_mode = "Fifo"
        /\ swapchain_create.info.usage = {"color_attachment"}

\* ------------------------------------------- properties: Engine::run, recreate

\* C25: a step that replaces the swapchain (a successful recreate) gives the
\* new one the extent the window has when the handler runs, whatever the
\* extent of the swapchain before, and builds one framebuffer per image of
\* the new swapchain, each on its image. (The Resized arm keeps nothing of
\* the event but the flag.)
C25_RecreateUsesWindowExtent ==
    /\ [][(swapchain' # swapchain) =>
            /\ iter'.recreate = "Ok"
            /\ swapchain'.extent = window_extent
            /\ window_extent' = window_extent
            /\ Len(framebuffers') = swapchain'.num_images
            /\ \A i \in 1..Len(framebuffers') :
                  framebuffers'[i].image = Images(swapchain')[i]]_vars
    /\ [][(recreate_swapchain' /\ ~recreate_swapchain /\ window_extent' # window_extent)
            => UNCHANGED <<swapchain, framebuffers, viewport, iter>>]_vars

\* C25's case: the recreate gave the swapchain the current extent of the
\* window, another than the old swapchain had, with a framebuffer per image.
C25_Witness ==
    /\ iter.recreate = "Ok"
    /\ iter.swapchain_at_start.id > 0
    /\ iter.swapchain_at_start.extent # swapchain.extent
    /\ swapchain.extent = window_extent
    /\ Len(framebuffers) = 2
    /\ swapchain.num_images = 2

\* C26: every handler invocation calls cleanup_finished exactly once, as its
\* first operation, whatever token is retained (the call does not wait for
\* it and leaves it in place), and so before the submission it builds.
C26_CleanupOncePerIteration ==
    /\ [](/\ (iter.ops # <<>>) =>
                /\ Count("cleanup_finished") = 1
                /\ iter.ops[1] = "cleanup_finished"
          /\ Performed("then_execute") =>
                /\ Position(iter.ops, "cleanup_finished") = 1
                /\ Position(iter.ops, "then_execute") > 1
                /\ iter.token_at_start \subseteq iter.waits)
    /\ [][(iter' # iter) =>
            /\ iter'.ops # <<>>
            /\ iter'.ops[1] = "cleanup_finished"
            /\ iter'.token_at_start = previous_frame_end]_vars

\* C26's case: the handler cleaned up while the token of a flushed frame was
\* retained, then submitted.
C26_Witness ==
    /\ Count("cleanup_finished") = 1
    /\ \E t \in iter.token_at_start : t.kind = "frame"
    /\ Performed("then_execute")
    /\ iter.flush = "Ok"

\* C27: a handler invocation that begins with the resize flag set, whatever
\* set it, calls recreate right after the cleanup and before any acquire, and
\* calls acquire only if that recreate succeeded; one that begins with the
\* flag unset does not call recreate.
C27_RecreateBeforeAcquire ==
    /\ [](/\ iter.flag_at_start =>
                /\ Position(iter.ops, "recreate") = 2
                /\ iter.recreate \in RecreateOutcomes
                /\ Performed("acquire_next_image") =>
                      /\ iter.recreate = "Ok"
                      /\ Position(iter.ops, "acquire_next_image") = 3
                /\ (iter.recreate = "Ok") => Performed("acquire_next_image")
          /\ (~iter.flag_at_start) =>
                /\ ~Performed("recreate")
                /\ iter.recreate = "None")
    /\ [][(iter' # iter) => (iter'.flag_at_start = recreate_swapchain)]_vars

\* C27's case: the invocation began with the flag set although the window
\* had the extent of the swapchain, recreated for that extent, then acquired.
C27_Witness ==
    /\ iter.flag_at_start
    /\ iter.recreate = "Ok"
    /\ Acquired
    /\ iter.swapchain_at_start.id > 0
    /\ iter.swapchain_at_start.extent = swapchain.extent
    /\ Position(iter.ops, "acquire_next_image") = 3

\* C28: the resize flag goes from set to unset only in a handler invocation
\* whose recreate succeeded; no window event unsets it, and within an
\* invocation nothing after the recreate unsets it: while the flag is unset,
\* the latest invocation set it nowhere (no suboptimal or out-of-date
\* acquire, no out-of-date flush) and, if it began with the flag set,
\* recreated with success.
C28_FlagClearedOnlyByRecreate ==
    /\ [][(recreate_swapchain /\ ~recreate_swapchain') =>
            /\ iter' # iter
            /\ iter'.flag_at_start
            /\ iter'.recreate = "Ok"
            /\ swapchain' # swapchain]_vars
    /\ []((~recreate_swapchain) =>
            /\ iter.acquire \notin {"Suboptimal", "OutOfDate"}
            /\ iter.flush # "OutOfDate"
            /\ iter.flag_at_start => iter.recreate = "Ok")
    /\ []((iter.flag_at_start /\ iter.recreate # "Ok") => recreate_swapchain)

\* C28's case: an invocation that began with the flag set recreated with
\* success, presented, and left the flag unset.
C28_Witness ==
    /\ iter.flag_at_start
    /\ iter.recreate = "Ok"
    /\ iter.acquire = "Ok"
    /\ iter.flush = "Ok"
    /\ ~recreate_swapchain
    /\ loop_pc = "running"

\* C29: however many Resized events come between two invocations of the
\* redraw handler, the following invocation recreates at most once (once
\* exactly when there was such an event), and the step of a Resized event
\* recreates, acquires and submits nothing: it leaves the swapchain, the
\* framebuffers, the viewport, the retained token and the record of the
\* latest invocation as they were.
C29_ResizesCoalesce ==
    /\ [](/\ Count("recreate") <= 1
          /\ (resizes_before # "none") =>
                 (iter.flag_at_start /\ Count("recreate") = 1))
    /\ [][(resizes_pending' \notin {"none", resizes_pending}
               \/ window_extent' # window_extent) =>
            /\ recreate_swapchain'
            /\ UNCHANGED <<swapchain, framebuffers, viewport, previous_frame_end,
                           tokens_made, iter>>]_vars

\* C29's case: several Resized events preceded the latest invocation, which
\* recreated once, with success, to the next swapchain.
C29_Witness ==
    /\ resizes_before = "several"
    /\ Count("recreate") = 1
    /\ iter.recreate = "Ok"
    /\ swapchain.id = iter.swapchain_at_start.id + 1
    /\ iter.flush = "Ok"

\* C30: a handler invocation that returned early (recreate answered
\* ImageExtentNotSupported, or acquire answered OutOfDate) neither takes nor
\* replaces the retained token: previous_frame_end holds the one token it
\* held when the invocation began, no token was made and nothing was waited
\* on; the next invocation that submits waits on that token, which is the
\* token of a flushed frame if the flush before the early return succeeded.
C30_AbortKeepsToken ==
    /\ [](iter.returned =>
            /\ iter.recreate = "ImageExtentNotSupported" \/ iter.acquire = "OutOfDate"
            /\ previous_frame_end = iter.token_at_start
            /\ Cardinality(previous_frame_end) = 1
            /\ iter.waits = {}
            /\ ~Performed("then_execute")
            /\ ~Performed("then_signal_fence_and_flush"))
    /\ [][(iter' # iter /\ iter'.returned) =>
            UNCHANGED <<previous_frame_end, tokens_made>>]_vars
    /\ [][(iter.returned /\ iter' # iter /\ Position(iter'.ops, "then_execute") # 0) =>
            /\ Tokens(iter'.waits) = iter.token_at_start
            /\ Tokens(iter'.waits) = previous_frame_end]_vars
    /\ [][(iter.flush = "Ok" /\ iter' # iter /\ iter'.returned) =>
            \A t \in previous_frame_end' : t.kind = "frame" /\ t.id = tokens_made']_vars

\* C30's case: after a flushed frame, an invocation recreated, got OutOfDate
\* from acquire and returned; the frame's token is still the retained one.
C30_Witness ==
    /\ iter.returned
    /\ iter.flag_at_start
    /\ iter.recreate = "Ok"
    /\ iter.acquire = "OutOfDate"
    /\ \E t \in previous_frame_end : t.kind = "frame"
    /\ previous_frame_end = iter.token_at_start

\* C31: the present request of a handler invocation names the image index its
\* acquire returned and the swapchain that acquire was asked on; that
\* swapchain is still the current one, the index is one of its images, and the
\* only recreate of the invocation, if any, came before the acquire.
C31_PresentNamesAcquired ==
    /\ Performed("then_swapchain_present") =>
          /\ Acquired
          /\ iter.presented = <<iter.acquired_from, iter.image_num>>
          /\ Position(iter.ops, "acquire_next_image")
                 < Position(iter.ops, "then_swapchain_present")
    /\ Acquired =>
          /\ iter.acquired_from = swapchain.id
          /\ iter.image_num \in 0..(swapchain.num_images - 1)
          /\ Position(iter.ops, "recreate") < Position(iter.ops, "acquire_next_image")
          /\ Count("recreate") <= 1
          /\ Count("acquire_next_image") = 1
    /\ ~Performed("then_swapchain_present") => iter.presented = <<>>

\* C31's case: the handler recreated, acquired the second image of the new
\* swapchain and asked for its present.
C31_Witness ==
    /\ iter.recreate = "Ok"
    /\ swapchain.id = iter.swapchain_at_start.id + 1
    /\ iter.acquired_from = swapchain.id
    /\ iter.image_num = 1
    /\ iter.presented = <<swapchain.id, 1>>

\* C32: from the initial setup on, and so after every successful recreate,
\* there are as many framebuffers as the current swapchain has images: every
\* image index acquire can return on it has its framebuffer, and the index a
\* handler drew with had one.
C32_FramebufferPerImage ==
    /\ Len(framebuffers) = swapchain.num_images
    /\ Len(framebuffers) = Len(Images(swapchain))
    /\ \A n \in 0..(swapchain.num_images - 1) :
          /\ (n + 1) \in DOMAIN framebuffers
          /\ framebuffers[n + 1].image.index = n
    /\ Performed("draw") => (iter.image_num + 1) \in DOMAIN framebuffers

\* C32's case: on a recreated swapchain of several images the handler drew
\* with the last index.
C32_Witness ==
    /\ iter.recreate = "Ok"
    /\ swapchain.id > 1
    /\ swapchain.num_images = MaxImages
    /\ iter.image_num = swapchain.num_images - 1
    /\ Performed("draw")
    /\ Len(framebuffers) = MaxImages

\* C33: a handler invocation whose flush failed with an error other than
\* out-of-date ends with the resize flag as the acquire left it (set only if
\* the acquire was suboptimal), with the swapchain it acquired on and the
\* framebuffers it drew with (those it began with unless it recreated), and
\* with the retained token replaced by a fresh sync::now one.
C33_FlushErrorKeepsState ==
    [][(iter' # iter /\ iter'.flush = "Error") =>
         /\ recreate_swapchain' = (iter'.acquire = "Suboptimal")
         /\ swapchain'.id = iter'.acquired_from
         /\ iter'.drawn = <<framebuffers'[iter'.image_num + 1], viewport'>>
         /\ (iter'.recreate # "Ok") => UNCHANGED <<swapchain, framebuffers, viewport>>
         /\ (iter'.recreate = "Ok") => swapchain'.id = swapchain.id + 1
         /\ previous_frame_end' = {[kind |-> "now", id |-> tokens_made + 1]}
         /\ previous_frame_end' # previous_frame_end
         /\ tokens_made' = tokens_made + 1]_vars

\* C33's case: the flush of a frame failed with such an error; the flag is
\* unset and the retained token is a sync::now one made after the frame's.
C33_Witness ==
    /\ iter.flush = "Error"
    /\ iter.acquire = "Ok"
    /\ ~recreate_swapchain
    /\ \E t \in iter.token_at_start : t.kind = "frame"
    /\ \E t \in previous_frame_end : t.kind = "now"
    /\ swapchain = iter.swapchain_at_start

\* The adapters with a family suitable for the role that score as i does
TiedWith(i, role) == {k \in WithFamily(role) : ScoreOf(k) = ScoreOf(i)}

\* The families of adapter i that satisfy the role's predicate
SuitableFamilies(i, role) ==
    {j \in 1..Len(adapters[i].families) : Suitable(adapters[i].families[j], role)}

\* C34: the adapter selected for a role is the first, in enumeration order,
\* of the extension-compatible adapters with a suitable family that share the
\* lowest score, and the family selected is the first family of that adapter
\* that satisfies the role's predicate.
C34_FirstOfTies ==
    (hw_pc = "done") =>
        /\ (graphics_physical # 0) =>
              /\ Best(graphics_physical, WithFamily("graphics"))
              /\ \A k \in TiedWith(graphics_physical, "graphics") : graphics_physical <= k
              /\ graphics_family \in SuitableFamilies(graphics_physical, "graphics")
              /\ \A j \in SuitableFamilies(graphics_physical, "graphics") :
                    graphics_family <= j
        /\ (compute_physical # 0) =>
              /\ Best(compute_physical, WithFamily("compute"))
              /\ \A k \in TiedWith(compute_physical, "compute") : compute_physical <= k
              /\ compute_family \in SuitableFamilies(compute_physical, "compute")
              /\ \A j \in SuitableFamilies(compute_physical, "compute") :
                    compute_family <= j

\* C34's case: two adapters of the same class, each with a family suitable
\* for graphics and for compute; the first was selected for both roles.
C34_Witness ==
    /\ hw_pc = "done"
    /\ Len(adapters) >= 2
    /\ ScoreOf(1) = ScoreOf(2)
    /\ {1, 2} \subseteq WithFamily("graphics")
    /\ {1, 2} \subseteq WithFamily("compute")
    /\ \A k \in Compatible : ScoreOf(1) <= ScoreOf(k)
    /\ graphics_physical = 1
    /\ compute_physical = 1

\* C35: the viewport has the dimensions of the images of the current
\* swapchain, the origin [0, 0] and the depth range 0..1 it was built with;
\* the viewport handed to the draw callback is that one, with the dimensions
\* of the image drawn into; and a step that changes the viewport replaces the
\* swapchain and the framebuffers too.
C35_ViewportOfSwapchain ==
    /\ [](/\ viewport.dimensions = swapchain.extent
          /\ \A i \in 1..Len(Images(swapchain)) :
                viewport.dimensions = Images(swapchain)[i].extent
          /\ viewport.origin = <<0, 0>>
          /\ viewport.depth_range = <<0, 1>>
          /\ Performed("draw") =>
                /\ iter.drawn[2] = viewport
                /\ iter.drawn[2].dimensions = iter.drawn[1].image.extent)
    /\ [][(viewport' # viewport) =>
            /\ framebuffers' # framebuffers
            /\ swapchain' # swapchain
            /\ iter'.recreate = "Ok"]_vars

\* C35's case: a recreate gave the swapchain another extent than the one the
\* handler began with, and the draw callback got the viewport of that extent.
C35_Witness ==
    /\ iter.recreate = "Ok"
    /\ swapchain.extent # iter.swapchain_at_start.extent
    /\ Performed("draw")
    /\ iter.drawn[2].dimensions = swapchain.extent
    /\ viewport.dimensions = window_extent

\* The loop can still run the handler and create a swapchain (the bounds of
\* the model leave room for both)
CanRecreate ==
    /\ loop_pc = "running"
    /\ tokens_made < MaxTokens
    /\ swapchain.id < MaxSwapchains

\* C36: the resize flag does not stay set for ever while the loop runs: a
\* state with the flag set (and the loop able to recreate) is always left,
\* and it is left only by a recreate that succeeds, replacing the swapchain by
\* the next one, or by the end of the loop (the window is closed, or the
\* driver answers with a fatal error). The successful recreate unsets the
\* flag: the flag is set after the invocation only if the acquire or the
\* flush that followed the recreate set it again. (The steps that replace
\* the swapchain are the RedrawAccepted steps, in which recreate answered Ok.)
C36_RecreateEventuallySucceeds ==
    /\ []<>~(recreate_swapchain /\ CanRecreate)
    /\ [][(recreate_swapchain /\ CanRecreate /\ ~(recreate_swapchain' /\ CanRecreate')) =>
            \/ loop_pc' # "running"
            \/ (iter'.flag_at_start /\ iter'.recreate = "Ok"
                    /\ swapchain'.id = swapchain.id + 1)]_vars
    /\ [][(iter' # iter /\ iter'.recreate = "Ok" /\ recreate_swapchain') =>
            \/ iter'.acquire \in {"Suboptimal", "OutOfDate"}
            \/ iter'.flush = "OutOfDate"]_vars
    /\ [][(swapchain' # swapchain) <=> (RedrawAccepted /\ iter'.recreate = "Ok")]_vars

\* C36's case: the handler began with the flag set, the driver accepted the
\* window's extent, the swapchain was replaced by its successor and the flag
\* is unset while the window is open.
C36_Witness ==
    /\ iter.flag_at_start
    /\ iter.recreate = "Ok"
    /\ swapchain.id = iter.swapchain_at_start.id + 1
    /\ ~recreate_swapchain
    /\ control_flow = "Poll"
    /\ loop_pc = "running"

\* ------------------------------------------ properties: Hardware, accessors

\* The families device d was asked queues of
FamiliesOf(d) ==
    {devices[d].queue_create_infos[k].family :
         k \in 1..Len(devices[d].queue_create_infos)}

\* C37: once Hardware::new has returned, the device each accessor reports is
\* the device that created that role's queue (a device opened on the role's
\* adapter and asked for a queue of the role's family), and the two accessors
\* report the same device exactly when graphics and compute were selected on
\* the same adapter, two distinct devices otherwise.
C37_DeviceOfQueue ==
    (hw_pc = "done" /\ hw_panic = NoPanic) =>
        /\ GraphicsDevice \in 1..Len(devices)
        /\ ComputeDevice \in 1..Len(devices)
        /\ devices[GraphicsDevice].physical = graphics_physical
        /\ devices[ComputeDevice].physical = compute_physical
        /\ graphics_queue.family = graphics_family
        /\ compute_queue.family = compute_family
        /\ graphics_family \in FamiliesOf(GraphicsDevice)
        /\ compute_family \in FamiliesOf(ComputeDevice)
        /\ (GraphicsDevice = ComputeDevice) <=> (graphics_physical = compute_physical)
        /\ (graphics_physical # compute_physical) =>
               (Len(devices) = 2 /\ {GraphicsDevice, ComputeDevice} = {1, 2})

\* C37's case: graphics and compute were selected on different adapters and
\* the accessors report two devices.
C37_Witness ==
    /\ hw_pc = "done"
    /\ hw_panic = NoPanic
    /\ graphics_physical # compute_physical
    /\ GraphicsDevice # ComputeDevice
    /\ devices[GraphicsDevice].physical = graphics_physical
    /\ devices[ComputeDevice].physical = compute_physical

====
